---- MODULE Spec2Model ----
(***************************************************************************)
(* Model of the notes CRUD server: the two entry points (src/main.rs,      *)
(* src/main-mysql.rs) and the request handlers (src/handler.rs, with the   *)
(* standalone copies src/handler-edit-note.rs, src/handler-delete-note.rs).*)
(*                                                                         *)
(* The `notes` table is a set of rows.  Every SQL statement is one atomic  *)
(* step; a handler with several statements is suspended between them (each *)
(* `.await`), and other requests may run there.  The datastore is assumed  *)
(* reachable once connected: the only statement errors modelled are those  *)
(* the statements themselves cause (RowNotFound, "Duplicate entry", a      *)
(* negative LIMIT/OFFSET).  rows_affected() counts matched rows (the sqlx  *)
(* MySQL driver connects with CLIENT_FOUND_ROWS).                          *)
(***************************************************************************)
EXTENDS Integers, Sequences, FiniteSets, Bags

VARIABLES
    phase,      \* position of main(): start, got_url, connected, listening, panicked, exited
    bin,        \* which entry point runs: "main" (full) or "main-mysql" (health check only)
    env,        \* whether DATABASE_URL is set once dotenv() has run
    connects,   \* number of connection attempts made by main()
    exit_code,  \* Option: process exit status
    notes,      \* the `notes` table: a set of rows
    req,        \* bag of suspended handlers: position and locals of each
    ev,         \* the step just taken: operation, inputs and HTTP response (if any)
    hist,       \* history: id -> the last write that hit its row, and the payload when it was a create
    script      \* client scenario of two planned edits (unused outside SpecEdits)

vars == <<phase, bin, env, connects, exit_code, notes, req, ev, hist, script>>

---------------------------------------------------------------------------
(* Bounds of the model *)

\* number of distinct values the id generator can produce
MaxIds == 2
\* number of ids the table is drawn from when checking pagination
MaxListIds == 11
\* cap on connection attempts explored (the code makes one)
MaxConnects == 2
\* handlers that may be suspended between two statements at once
MaxInFlight == 1

Ids == 1..MaxIds
ListIds == 1..MaxListIds
Titles == {"A", "B"}
Contents == {"x", "y"}

---------------------------------------------------------------------------
(* Rust values *)

\* Option<T>: None is the empty set, Some(v) the singleton
None == {}
Some(v) == {v}
is_some(opt) == opt # {}
unwrap(opt) == CHOOSE v \in opt : TRUE
unwrap_or(opt, d) == IF opt = {} THEN d ELSE unwrap(opt)

\* usize (64-bit targets) as its 8 little-endian bytes; i32 is 4 bytes wide
UsizeBytes == 8
I32Bytes == 4
Byte == 2 ^ 8
Usize(n) == [i \in 1..UsizeBytes |-> IF i <= 4 THEN (n \div (Byte ^ (i - 1))) % Byte ELSE 0]
UsizeZero == Usize(0)

\* a - 1 on usize: the wrapped value, and whether the subtraction overflowed
RECURSIVE Borrow(_, _)
Borrow(a, i) == IF i = 0 THEN TRUE ELSE a[i] = 0 /\ Borrow(a, i - 1)
UsizeSubOne(a) ==
    IF a[1] > 0 THEN [value |-> [a EXCEPT ![1] = @ - 1], overflow |-> FALSE]
    ELSE [value |-> [i \in 1..UsizeBytes |->
                        IF Borrow(a, i - 1) THEN (a[i] + Byte - 1) % Byte ELSE a[i]],
          overflow |-> a = UsizeZero]

\* a * b on usize: schoolbook product of the bytes, low byte first
RECURSIVE ColumnSum(_, _, _, _)
ColumnSum(a, b, k, i) ==
    IF i = 0 THEN 0
    ELSE (IF i <= UsizeBytes /\ k - i + 1 \in 1..UsizeBytes THEN a[i] * b[k - i + 1] ELSE 0)
         + ColumnSum(a, b, k, i - 1)
RECURSIVE Product(_, _, _, _)
Product(a, b, k, carry) ==
    IF k > 2 * UsizeBytes THEN <<>>
    ELSE LET t == ColumnSum(a, b, k, k) + carry
         IN <<t % Byte>> \o Product(a, b, k + 1, t \div Byte)
\* the wrapped value, and whether the multiplication overflowed
\* (operands below 2^15 are multiplied directly: the product fits four bytes)
IsShort(a) == a[2] < Byte \div 2 /\ \A i \in 3..UsizeBytes : a[i] = 0
UsizeMul(a, b) ==
    IF IsShort(a) /\ IsShort(b)
    THEN [value |-> Usize((a[1] + Byte * a[2]) * (b[1] + Byte * b[2])), overflow |-> FALSE]
    ELSE LET p == Product(a, b, 1, 0)
         IN [value |-> SubSeq(p, 1, UsizeBytes),
             overflow |-> \E k \in (UsizeBytes + 1)..(2 * UsizeBytes) : p[k] # 0]

\* `x as i32`: the low 4 bytes read as two's complement
RECURSIVE LowBytes(_, _)
LowBytes(a, n) == IF n = 0 THEN 0 ELSE a[1] + Byte * LowBytes(Tail(a), n - 1)
AsI32(a) ==
    LowBytes(a, I32Bytes - 1)
    + (IF a[I32Bytes] >= Byte \div 2 THEN a[I32Bytes] - Byte ELSE a[I32Bytes]) * Byte ^ (I32Bytes - 1)
\* bool as i8
BoolAsI8(b) == IF b THEN 1 ELSE 0

\* time the datastore stamps rows with (column default CURRENT_TIMESTAMP)
CurrentTimestamp == "CURRENT_TIMESTAMP"

---------------------------------------------------------------------------
(* HTTP responses *)

NoMessage == [text |-> "", id |-> None]
NotFoundMessage(id) == [text |-> "La nota con el ID: {} no encontrado", id |-> Some(id)]
Message(text) == [text |-> text, id |-> None]

Response(code, status, message, note, list) ==
    [code |-> code, status |-> status, message |-> message,
     note |-> note, notes |-> list, count |-> IF list = None THEN None ELSE Some(Len(unwrap(list)))]

\* no response yet: the handler is suspended at an .await
Pending == Response(0, "pending", NoMessage, None, None)
\* the handler panicked: the connection is dropped without a response
Fault == Response(0, "panic", NoMessage, None, None)
NotFound(status, id) == Response(404, status, NotFoundMessage(id), None, None)
ServerError(text) == Response(500, "error", Message(text), None, None)

\* faulty variant: every note is reported as published
to_note_response_published(note) ==
    [id |-> note.id, title |-> note.title, content |-> note.content,
     is_published |-> TRUE,
     created_at |-> unwrap(note.created_at), updated_at |-> unwrap(note.updated_at)]
\* fn to_note_response: created_at/updated_at are unwrapped and panic on NULL
to_note_response(note) ==
    [id |-> note.id, title |-> note.title, content |-> note.content,
     is_published |-> note.is_published # 0,
     created_at |-> unwrap(note.created_at), updated_at |-> unwrap(note.updated_at)]
UnwrapPanics(note) == note.created_at = None \/ note.updated_at = None

\* {"status": "success", "data": {"note": to_note_response(&note)}}
NoteResponse(note) ==
    IF UnwrapPanics(note) THEN Fault
    ELSE Response(200, "success", NoMessage, Some(to_note_response(note)), None)

---------------------------------------------------------------------------
(* SQL statements on the notes table *)

Row(id, title, content, is_published, created_at, updated_at) ==
    [id |-> id, title |-> title, content |-> content, is_published |-> is_published,
     created_at |-> created_at, updated_at |-> updated_at]

\* SELECT * FROM notes WHERE id = ?   (fetch_one: RowNotFound when empty)
SelectById(tbl, id) == {r \in tbl : r.id = id}
HasRow(tbl, id) == SelectById(tbl, id) # {}
FetchOne(tbl, id) == CHOOSE r \in SelectById(tbl, id) : TRUE

\* The table definition is not part of the repository: id is the primary key,
\* is_published defaults to 0 and both timestamps to the time of the insert
DuplicateKey(tbl, id) == HasRow(tbl, id)
DefaultRow(id, title, content) ==
    Row(id, title, content, 0, Some(CurrentTimestamp), Some(CurrentTimestamp))

\* faulty variant of the INSERT: a stored row of that id is replaced
ReplaceInto(tbl, id, title, content) ==
    [err |-> "",
     tbl |-> (tbl \ SelectById(tbl, id)) \cup {DefaultRow(id, title, content)}]
\* INSERT INTO notes (id, title, content) VALUES (?, ?, ?)
InsertInto(tbl, id, title, content) ==
    IF DuplicateKey(tbl, id)
    THEN [err |-> "Duplicate entry", tbl |-> tbl]
    ELSE [err |-> "", tbl |-> tbl \cup {DefaultRow(id, title, content)}]

\* faulty variants of the UPDATE: one inserts the row when none matches,
\* one leaves the content column out of the SET list
UpdateSetNoContent(tbl, id, title, content, is_published) ==
    LET hit == SelectById(tbl, id)
    IN [rows_affected |-> Cardinality(hit),
        tbl |-> (tbl \ hit)
                \cup {[r EXCEPT !.title = title, !.is_published = is_published,
                                !.updated_at = Some(CurrentTimestamp)] : r \in hit}]
UpsertSet(tbl, id, title, content, is_published) ==
    [rows_affected |-> 1,
     tbl |-> (tbl \ SelectById(tbl, id))
             \cup {Row(id, title, content, is_published, Some(CurrentTimestamp), Some(CurrentTimestamp))}]
\* UPDATE notes SET title = ?, content = ?, is_published = ? WHERE id = ?
UpdateSet(tbl, id, title, content, is_published) ==
    LET hit == SelectById(tbl, id)
    IN [rows_affected |-> Cardinality(hit),
        tbl |-> (tbl \ hit)
                \cup {[r EXCEPT !.title = title, !.content = content,
                                !.is_published = is_published,
                                !.updated_at = Some(CurrentTimestamp)] : r \in hit}]

\* faulty variant of the DELETE: no WHERE clause
DeleteAll(tbl, id) == [rows_affected |-> Cardinality(tbl), tbl |-> {}]
\* DELETE FROM notes WHERE id = ?
DeleteFrom(tbl, id) ==
    LET hit == SelectById(tbl, id)
    IN [rows_affected |-> Cardinality(hit), tbl |-> tbl \ hit]

\* ORDER by id: the rows as a sequence, ascending id
RECURSIVE OrderById(_)
OrderById(tbl) ==
    IF tbl = {} THEN <<>>
    ELSE LET first == CHOOSE r \in tbl : \A q \in tbl : r.id <= q.id
         IN <<first>> \o OrderById(tbl \ {first})

\* SELECT * FROM notes ORDER by id LIMIT ? OFFSET ?   (both bounds non-negative)
SelectPage(tbl, limit, offset) ==
    LET all == OrderById(tbl)
    IN IF offset >= Len(all) THEN <<>>
       ELSE SubSeq(all, offset + 1,
                   IF limit >= Len(all) - offset THEN Len(all) ELSE offset + limit)

---------------------------------------------------------------------------
(* Handlers: what each does between two suspension points, on the table *)

DefaultPage == 1
DefaultLimit == 10

\* faulty variant: the health check reports the datastore's absence
HealthCheckDown == Response(503, "error", Message("API"), None, None)
\* health_check_handler: {"status": "ok", "message": "API"}
HealthCheck == Response(200, "ok", Message("API"), None, None)

\* A negative LIMIT or OFFSET parameter: the server rejects the statement, or
\* reads the value as unsigned (a bound beyond any table size)
Unsigned(tbl, n) == IF n < 0 THEN Cardinality(tbl) ELSE n

\* note_list_handler.  overflow_checks: whether the build traps integer
\* overflow (debug profile) or wraps (release profile); rejects_negative:
\* which of the two the datastore does with a negative bound
NoteList(tbl, page, limit, overflow_checks, rejects_negative) ==
    LET lim == unwrap_or(limit, Usize(DefaultLimit))
        pm1 == UsizeSubOne(unwrap_or(page, Usize(DefaultPage)))
        off == UsizeMul(pm1.value, lim)
        l32 == AsI32(lim)
        o32 == AsI32(off.value)
        rows == SelectPage(tbl, Unsigned(tbl, l32), Unsigned(tbl, o32))
    IN IF overflow_checks /\ (pm1.overflow \/ off.overflow) THEN Fault
       ELSE IF rejects_negative /\ (l32 < 0 \/ o32 < 0) THEN ServerError("Database error")
       ELSE IF \E i \in 1..Len(rows) : UnwrapPanics(rows[i]) THEN Fault
       ELSE Response(200, "ok", NoMessage, None,
                     Some([i \in 1..Len(rows) |-> to_note_response(rows[i])]))

\* SELECT by id and answer with the note: the tail of create and edit.
\* fetch_one fails with RowNotFound, which map_err turns into a 500
Refetch(tbl, id) ==
    IF HasRow(tbl, id) THEN NoteResponse(FetchOne(tbl, id)) ELSE ServerError("RowNotFound")

\* create_note_handler up to the INSERT's .await
CreateInsert(tbl, id, body) ==
    LET q == InsertInto(tbl, id, body.title, body.content)
    IN [tbl |-> q.tbl,
        resp |-> IF q.err = "" THEN Pending
                 ELSE IF q.err = "Duplicate entry"
                      THEN Response(409, "error", Message("Note already exists"), None, None)
                      ELSE ServerError(q.err)]

\* faulty variant: a missing row is answered with an empty note
GetNoteAlwaysFound(tbl, id) ==
    NoteResponse(IF HasRow(tbl, id) THEN FetchOne(tbl, id)
                 ELSE Row(id, "", "", 0, Some(CurrentTimestamp), Some(CurrentTimestamp)))
\* get_note_handler
GetNote(tbl, id) ==
    IF HasRow(tbl, id) THEN NoteResponse(FetchOne(tbl, id)) ELSE NotFound("fail", id)

\* faulty variant: absent fields are bound as empty values, not the stored ones
EditFetchOverwrite(tbl, id, body) ==
    IF ~HasRow(tbl, id) THEN [resp |-> NotFound("error", id), title |-> "", content |-> "", is_published |-> 0]
    ELSE [resp |-> Pending,
          title |-> unwrap_or(body.title, ""),
          content |-> unwrap_or(body.content, ""),
          is_published |-> BoolAsI8(unwrap_or(body.is_published, FALSE))]
\* edit_note_handler up to the UPDATE: the first SELECT and the values bound
EditFetch(tbl, id, body) ==
    IF ~HasRow(tbl, id) THEN [resp |-> NotFound("error", id), title |-> "", content |-> "", is_published |-> 0]
    ELSE LET note == FetchOne(tbl, id)
         IN [resp |-> Pending,
             title |-> unwrap_or(body.title, note.title),
             content |-> unwrap_or(body.content, note.content),
             is_published |-> BoolAsI8(unwrap_or(body.is_published, note.is_published # 0))]

\* edit_note_handler: the UPDATE and the rows_affected() check
EditUpdate(tbl, id, title, content, is_published) ==
    LET u == UpdateSet(tbl, id, title, content, is_published)
    IN [tbl |-> u.tbl, rows_affected |-> u.rows_affected,
        resp |-> IF u.rows_affected = 0 THEN NotFound("error", id) ELSE Pending]

\* delete_note_handler
DeleteNote(tbl, id) ==
    LET d == DeleteFrom(tbl, id)
    IN [tbl |-> d.tbl, rows_affected |-> d.rows_affected,
        resp |-> IF d.rows_affected = 0 THEN NotFound("error", id)
                 ELSE Response(200, "", NoMessage, None, None)]

---------------------------------------------------------------------------
(* Requests, inputs and events *)

\* CreateNoteSchema and UpdateNoteSchema payloads, FilterOptions values
CreateBodies == [title : Titles, content : Contents]
UpdateBodies ==
    [title : {None} \cup {Some(t) : t \in Titles},
     content : {None} \cup {Some(c) : c \in Contents},
     is_published : {None, Some(TRUE), Some(FALSE)}]
PageArgs == {None, Some(Usize(1)), Some(Usize(2))}
\* 65537 pages of 65536 notes: an offset of 2^32
LargePageArgs ==
    PageArgs \cup {Some(UsizeZero), Some(Usize(3)), Some(Usize(5)), Some(Usize(65537))}
LargeLimitArgs ==
    PageArgs \cup {Some(UsizeZero), Some(Usize(3)), Some(Usize(5)), Some(Usize(65536))}

\* a handler suspended before its next statement, with the locals it still needs;
\* tag names the scripted request it serves (0: any client)
Suspended(tag, pc, id, title, content, is_published) ==
    [tag |-> tag, pc |-> pc, id |-> id, title |-> title, content |-> content,
     is_published |-> is_published]
Resume(r, next) == (req (-) SetToBag({r})) (+) next
Nothing == EmptyBag
Only(r) == SetToBag({r})
CanSuspend == BagCardinality(req) < MaxInFlight

NoArgs == [none |-> TRUE]
Event(tag, op, step, id, args, resp) ==
    [tag |-> tag, op |-> op, step |-> step, id |-> id, args |-> args, resp |-> resp]

NoScript == [id |-> 0, orig |-> None, title |-> "", content |-> "", todo |-> {}, answered |-> <<None, None>>]

\* the history of writes: a successful INSERT, an UPDATE or DELETE that hit the row
Written(last, body) == [last |-> last, body |-> body]
AfterInsert(id, body, resp) ==
    IF resp = Pending THEN [hist EXCEPT ![id] = Written("created", Some(body))] ELSE hist
AfterWrite(id, last, rows_affected) ==
    IF rows_affected > 0 THEN [hist EXCEPT ![id] = Written(last, None)] ELSE hist

Serving == phase = "listening"
\* the full router; main-mysql.rs routes /api/healthcheck only
ServingNotes == Serving /\ bin = "main"

---------------------------------------------------------------------------
(* main(): src/main.rs and src/main-mysql.rs share the bootstrap *)

\* faulty variant: a failed connection attempt is retried
AfterConnectRetry(ok) == IF ok THEN "connected" ELSE "got_url"
\* the Ok and Err arms of the connect match
AfterConnect(ok) == IF ok THEN "connected" ELSE "exited"

\* std::env::var("DATABASE_URL").expect(..): panics when the variable is not set
ReadEnv ==
    /\ phase = "start"
    /\ phase' = IF env THEN "got_url" ELSE "panicked"
    /\ ev' = Event(0, "main", "env", None, NoArgs, Pending)
    /\ UNCHANGED <<bin, env, connects, exit_code, notes, req, hist, script>>

\* MySqlPoolOptions::new().max_connections(10).connect(..): exit(1) on Err
Connect(ok) ==
    /\ phase = "got_url"
    /\ connects < MaxConnects
    /\ connects' = connects + 1
    /\ phase' = AfterConnect(ok)
    /\ exit_code' = IF phase' = "exited" THEN Some(1) ELSE exit_code
    /\ ev' = Event(0, "main", "connect", None, NoArgs, Pending)
    /\ UNCHANGED <<bin, env, notes, req, hist, script>>

\* TcpListener::bind("0.0.0.0:8080").await.unwrap(), then axum::serve
Bind(ok) ==
    /\ phase = "connected"
    /\ phase' = IF ok THEN "listening" ELSE "panicked"
    /\ ev' = Event(0, "main", "bind", None, NoArgs, Pending)
    /\ UNCHANGED <<bin, env, connects, exit_code, notes, req, hist, script>>

---------------------------------------------------------------------------
(* Handlers, one statement per step *)

boot == <<phase, bin, env, connects, exit_code>>

health_check_handler ==
    /\ Serving
    /\ ev' = Event(0, "health", "respond", None, NoArgs, HealthCheck)
    /\ UNCHANGED <<boot, notes, req, hist, script>>

note_list_handler(page, limit, overflow_checks, rejects_negative) ==
    /\ ServingNotes
    /\ ev' = Event(0, "list", "respond", None, [page |-> page, limit |-> limit],
                   NoteList(notes, page, limit, overflow_checks, rejects_negative))
    /\ UNCHANGED <<boot, notes, req, hist, script>>

get_note_handler(id) ==
    /\ ServingNotes
    /\ ev' = Event(0, "get", "respond", Some(id), NoArgs, GetNote(notes, id))
    /\ UNCHANGED <<boot, notes, req, hist, script>>

delete_note_handler(id) ==
    /\ ServingNotes
    /\ LET d == DeleteNote(notes, id)
       IN /\ notes' = d.tbl
          /\ hist' = AfterWrite(id, "deleted", d.rows_affected)
          /\ ev' = Event(0, "delete", "respond", Some(id), NoArgs, d.resp)
    /\ UNCHANGED <<boot, req, script>>

\* uuid::Uuid::new_v4() yields id; the INSERT runs
CreateInsertStep(id, body) ==
    /\ ServingNotes /\ CanSuspend
    /\ LET c == CreateInsert(notes, id, body)
       IN /\ notes' = c.tbl
          /\ hist' = AfterInsert(id, body, c.resp)
          /\ req' = req (+) (IF c.resp = Pending
                             THEN Only(Suspended(0, "create_refetch", id, "", "", 0))
                             ELSE Nothing)
          /\ ev' = Event(0, "create", "insert", Some(id), body, c.resp)
    /\ UNCHANGED <<boot, script>>

CreateRefetchStep(r) ==
    /\ r.pc = "create_refetch"
    /\ req' = Resume(r, Nothing)
    /\ ev' = Event(r.tag, "create", "refetch", Some(r.id), NoArgs, Refetch(notes, r.id))
    /\ UNCHANGED <<boot, notes, hist, script>>

EditFetchCore(tag, id, body) ==
    /\ ServingNotes
    /\ LET f == EditFetch(notes, id, body)
       IN /\ req' = req (+) (IF f.resp = Pending
                             THEN Only(Suspended(tag, "edit_update", id, f.title, f.content, f.is_published))
                             ELSE Nothing)
          /\ ev' = Event(tag, "edit", "fetch", Some(id), NoArgs, f.resp)
    /\ UNCHANGED <<boot, notes, hist>>

EditUpdateCore(r) ==
    /\ r.pc = "edit_update"
    /\ LET u == EditUpdate(notes, r.id, r.title, r.content, r.is_published)
       IN /\ notes' = u.tbl
          /\ hist' = AfterWrite(r.id, "edited", u.rows_affected)
          /\ req' = Resume(r, IF u.resp = Pending
                              THEN Only(Suspended(r.tag, "edit_refetch", r.id, "", "", 0))
                              ELSE Nothing)
          /\ ev' = Event(r.tag, "edit", "update", Some(r.id), NoArgs, u.resp)
    /\ UNCHANGED boot

EditRefetchCore(r) ==
    /\ r.pc = "edit_refetch"
    /\ req' = Resume(r, Nothing)
    /\ ev' = Event(r.tag, "edit", "refetch", Some(r.id), NoArgs, Refetch(notes, r.id))
    /\ UNCHANGED <<boot, notes, hist>>

EditFetchStep(id, body) == CanSuspend /\ EditFetchCore(0, id, body) /\ UNCHANGED script
EditUpdateStep(r) == EditUpdateCore(r) /\ UNCHANGED script
EditRefetchStep(r) == EditRefetchCore(r) /\ UNCHANGED script

---------------------------------------------------------------------------
(* The program: any requests, at most MaxInFlight handlers suspended *)

Init ==
    /\ phase = "start"
    /\ bin \in {"main", "main-mysql"}
    /\ env \in BOOLEAN
    /\ connects = 0
    /\ exit_code = None
    /\ notes = {}
    /\ req = EmptyBag
    /\ ev = Event(0, "main", "start", None, NoArgs, Pending)
    /\ hist = [id \in Ids |-> Written("none", None)]
    /\ script = NoScript

Next ==
    \/ ReadEnv
    \/ \E ok \in BOOLEAN : Connect(ok)
    \/ \E ok \in BOOLEAN : Bind(ok)
    \/ health_check_handler
    \/ \E page \in PageArgs, limit \in PageArgs, oc \in BOOLEAN, rn \in BOOLEAN :
            note_list_handler(page, limit, oc, rn)
    \/ \E id \in Ids : get_note_handler(id)
    \/ \E id \in Ids : delete_note_handler(id)
    \/ \E id \in Ids, body \in CreateBodies : CreateInsertStep(id, body)
    \/ \E r \in BagToSet(req) : CreateRefetchStep(r)
    \/ \E id \in Ids, body \in UpdateBodies : EditFetchStep(id, body)
    \/ \E r \in BagToSet(req) : EditUpdateStep(r)
    \/ \E r \in BagToSet(req) : EditRefetchStep(r)

Spec == Init /\ [][Next]_vars

---------------------------------------------------------------------------
(* Serial service: each handler runs from request to response with no other *)
(* request in between                                                       *)

create_note_handler(id, body) ==
    /\ ServingNotes /\ req = EmptyBag
    /\ LET c == CreateInsert(notes, id, body)
       IN /\ notes' = c.tbl
          /\ hist' = AfterInsert(id, body, c.resp)
          /\ ev' = Event(0, "create", "respond", Some(id), body,
                         IF c.resp = Pending THEN Refetch(c.tbl, id) ELSE c.resp)
    /\ UNCHANGED <<boot, req, script>>

edit_note_handler(id, body) ==
    /\ ServingNotes /\ req = EmptyBag
    /\ LET f == EditFetch(notes, id, body)
           u == EditUpdate(notes, id, f.title, f.content, f.is_published)
       IN IF f.resp # Pending
          THEN /\ ev' = Event(0, "edit", "respond", Some(id), body, f.resp)
               /\ UNCHANGED <<notes, hist>>
          ELSE /\ notes' = u.tbl
               /\ hist' = AfterWrite(id, "edited", u.rows_affected)
               /\ ev' = Event(0, "edit", "respond", Some(id), body,
                              IF u.resp = Pending THEN Refetch(u.tbl, id) ELSE u.resp)
    /\ UNCHANGED <<boot, req, script>>

\* the full entry point after a successful bootstrap
InitServing ==
    /\ phase = "listening"
    /\ bin = "main"
    /\ env = TRUE
    /\ connects = 1
    /\ exit_code = None
    /\ notes = {}
    /\ req = EmptyBag
    /\ ev = Event(0, "main", "bind", None, NoArgs, Pending)
    /\ hist = [id \in Ids |-> Written("none", None)]
    /\ script = NoScript

NextSeq ==
    \/ health_check_handler
    \/ \E page \in PageArgs, limit \in PageArgs, oc \in BOOLEAN, rn \in BOOLEAN :
            note_list_handler(page, limit, oc, rn)
    \/ \E id \in Ids : get_note_handler(id)
    \/ \E id \in Ids : delete_note_handler(id)
    \/ \E id \in Ids, body \in CreateBodies : create_note_handler(id, body)
    \/ \E id \in Ids, body \in UpdateBodies : edit_note_handler(id, body)

SpecSeq == InitServing /\ [][NextSeq]_vars

---------------------------------------------------------------------------
(* Pagination: one list request, with any page and limit, on any table      *)
(* holding a run of consecutive ids                                         *)

RowsOf(ids) ==
    {Row(id, "A", "x", 0, Some(CurrentTimestamp), Some(CurrentTimestamp)) : id \in ids}

InitList ==
    /\ phase = "listening"
    /\ bin = "main"
    /\ env = TRUE
    /\ connects = 1
    /\ exit_code = None
    /\ \E hi \in ListIds : \E lo \in 1..(hi + 1) : notes = RowsOf(lo..hi)
    /\ req = EmptyBag
    /\ \E page \in LargePageArgs, limit \in LargeLimitArgs :
            ev = Event(0, "list", "request", None, [page |-> page, limit |-> limit], Pending)
    /\ hist = [id \in Ids |-> Written("none", None)]
    /\ script = NoScript

NextList ==
    \E oc \in BOOLEAN, rn \in BOOLEAN :
        /\ ev.step = "request"
        /\ note_list_handler(ev.args.page, ev.args.limit, oc, rn)

SpecList == InitList /\ [][NextList]_vars

---------------------------------------------------------------------------
(* Two concurrent edits of one note: request 1 supplies only a title,       *)
(* request 2 only a content                                                 *)

ScriptTags == {1, 2}
ScriptBody(tag) ==
    IF tag = 1
    THEN [title |-> Some(script.title), content |-> None, is_published |-> None]
    ELSE [title |-> None, content |-> Some(script.content), is_published |-> None]
\* the response a scripted request ended with, once it has one
Answered(tag, resp) ==
    IF resp = Pending THEN script.answered
    ELSE [script.answered EXCEPT ![tag] = Some(resp.code)]

ScriptEditFetch(tag) ==
    /\ tag \in script.todo
    /\ EditFetchCore(tag, script.id, ScriptBody(tag))
    /\ script' = [script EXCEPT !.todo = @ \ {tag}, !.answered = Answered(tag, ev'.resp)]

ScriptEditUpdate(r) ==
    /\ EditUpdateCore(r)
    /\ script' = [script EXCEPT !.answered = Answered(r.tag, ev'.resp)]

ScriptEditRefetch(r) ==
    /\ EditRefetchCore(r)
    /\ script' = [script EXCEPT !.answered = Answered(r.tag, ev'.resp)]

InitEdits ==
    /\ phase = "listening"
    /\ bin = "main"
    /\ env = TRUE
    /\ connects = 1
    /\ exit_code = None
    /\ req = EmptyBag
    /\ ev = Event(0, "main", "bind", None, NoArgs, Pending)
    /\ hist = [id \in Ids |-> Written("none", None)]
    /\ \E id \in Ids, t0 \in Titles, c0 \in Contents, p0 \in {0, 1}, t \in Titles, c \in Contents :
          LET orig == Row(id, t0, c0, p0, Some(CurrentTimestamp), Some(CurrentTimestamp))
          IN /\ notes \in {{orig}} \cup {{orig, o} : o \in RowsOf(Ids \ {id})}
             /\ script = [id |-> id, orig |-> Some(orig), title |-> t, content |-> c,
                          todo |-> ScriptTags, answered |-> <<None, None>>]

NextEdits ==
    \/ \E tag \in ScriptTags : ScriptEditFetch(tag)
    \/ \E r \in BagToSet(req) : ScriptEditUpdate(r)
    \/ \E r \in BagToSet(req) : ScriptEditRefetch(r)

SpecEdits == InitEdits /\ [][NextEdits]_vars

---------------------------------------------------------------------------
(* Properties *)

\* the id a request event is about
IdOf(e) == unwrap(e.id)
Unique(tbl) == \A r1 \in tbl, r2 \in tbl : r1.id = r2.id => r1 = r2
Projection(id, title, content, is_published) ==
    [id |-> id, title |-> title, content |-> content, is_published |-> is_published,
     created_at |-> CurrentTimestamp, updated_at |-> CurrentTimestamp]

\* ---- C1 --------------------------------------------------------------
AllAnswered ==
    /\ script.id # 0
    /\ script.todo = {}
    /\ \A tag \in ScriptTags : script.answered[tag] # None
FinalNote == FetchOne(notes, script.id)
Original == unwrap(script.orig)

\* C1 (as claimed): once two concurrent edits of one note, one with only a new
\* title and one with only a new content, have both been answered, the stored
\* note has the new title and the new content, and neither request faulted.
C1_BothChangesApplied ==
    AllAnswered =>
        /\ HasRow(notes, script.id)
        /\ FinalNote.title = script.title
        /\ FinalNote.content = script.content
        /\ \A tag \in ScriptTags : script.answered[tag] # Some(0)

\* C1 (amended): both requests are answered 200, and the stored note has the
\* new title or the new content; each of the two fields holds its new or its
\* original value (the later UPDATE writes back what its request fetched), and
\* is_published, id and created_at are the original ones.
C1_LastUpdateWins ==
    AllAnswered =>
        /\ \A tag \in ScriptTags : script.answered[tag] = Some(200)
        /\ Cardinality(SelectById(notes, script.id)) = 1
        /\ FinalNote.title = script.title \/ FinalNote.content = script.content
        /\ FinalNote.title \in {script.title, Original.title}
        /\ FinalNote.content \in {script.content, Original.content}
        /\ FinalNote.is_published = Original.is_published
        /\ FinalNote.created_at = Original.created_at

\* both edits answered, and the title change was lost to the other's UPDATE
C1_Witness ==
    /\ AllAnswered
    /\ Original.title # script.title
    /\ Original.content # script.content
    /\ FinalNote.title = Original.title
    /\ FinalNote.content = script.content

\* ---- C2 --------------------------------------------------------------
Supplied(field, old) == IF field = None THEN old ELSE unwrap(field)

\* C2: an edit of an existing note that runs alone answers 200 with the
\* resulting note; every field absent from the payload keeps its stored value
\* and every supplied field takes the payload's (is_published as 0 or 1); the
\* empty payload leaves the note as it was; no other row changes.
C2_PartialUpdate ==
    [][(ev'.op = "edit" /\ ev'.step = "respond" /\ HasRow(notes, IdOf(ev')))
        => LET id == IdOf(ev')
               body == ev'.args
               old == FetchOne(notes, id)
               new == FetchOne(notes', id)
           IN /\ Cardinality(SelectById(notes', id)) = 1
              /\ new.title = Supplied(body.title, old.title)
              /\ new.content = Supplied(body.content, old.content)
              /\ new.is_published =
                    (IF body.is_published = None THEN old.is_published
                     ELSE IF unwrap(body.is_published) THEN 1 ELSE 0)
              /\ new.created_at = old.created_at
              /\ notes' \ {new} = notes \ {old}
              /\ (body.title = None /\ body.content = None /\ body.is_published = None)
                    => notes' = notes
              /\ ev'.resp.code = 200
              /\ ev'.resp.status = "success"
              /\ ev'.resp.note =
                    Some(Projection(id, new.title, new.content, new.is_published = 1))
      ]_vars

\* an edit with only a content was answered 200 and the title differs from it
C2_Witness ==
    /\ ev.op = "edit" /\ ev.step = "respond"
    /\ ev.args.title = None /\ ev.args.content # None /\ ev.args.is_published = None
    /\ ev.resp.code = 200
    /\ unwrap(ev.resp.note).title = "B"
    /\ unwrap(ev.resp.note).is_published

\* ---- C3 --------------------------------------------------------------
\* C3: a get of an id whose row was inserted by a create with title T and
\* content C, and hit by no edit or delete since, answers 200 with T, C,
\* is_published false and both timestamps; a create answered 200 returns the
\* generated id; the INSERT stores the row unpublished.
C3_CreateThenGet ==
    /\ (ev.op = "get" /\ hist[IdOf(ev)].last = "created")
        => LET body == unwrap(hist[IdOf(ev)].body)
           IN /\ ev.resp.code = 200
              /\ ev.resp.note = Some(Projection(IdOf(ev), body.title, body.content, FALSE))
    /\ (ev.op = "create" /\ ev.resp.code = 200)
        => unwrap(ev.resp.note).id = IdOf(ev)
    /\ (ev.op = "create" /\ ev.step = "insert" /\ ev.resp = Pending)
        => /\ FetchOne(notes, IdOf(ev)).is_published = 0
           /\ FetchOne(notes, IdOf(ev)).title = ev.args.title
           /\ FetchOne(notes, IdOf(ev)).content = ev.args.content

\* a get of a freshly created note answered 200
C3_Witness ==
    /\ ev.op = "get"
    /\ hist[IdOf(ev)].last = "created"
    /\ ev.resp.code = 200
    /\ unwrap(ev.resp.note).title = "B"

\* ---- C4 --------------------------------------------------------------
\* C4: a delete of an id that has a row answers 200 and removes that row and
\* no other; a get or delete of an id whose last write was a delete (no
\* create of that id since) answers 404 with the "no encontrado" message.
C4_DeleteThenNotFound ==
    [][/\ (ev'.op = "delete" /\ HasRow(notes, IdOf(ev')))
            => /\ ev'.resp.code = 200
               /\ notes' = notes \ {FetchOne(notes, IdOf(ev'))}
               /\ ~HasRow(notes', IdOf(ev'))
       /\ (ev'.op \in {"delete", "get"} /\ hist[IdOf(ev')].last = "deleted")
            => /\ ev'.resp.code = 404
               /\ ev'.resp.message = NotFoundMessage(IdOf(ev'))
               /\ notes' = notes
      ]_vars

\* a second delete of a deleted id was answered 404, another note remaining
C4_Witness ==
    /\ ev.op = "delete"
    /\ hist[IdOf(ev)].last = "deleted"
    /\ ev.resp.code = 404
    /\ notes # {}

\* ---- C5 --------------------------------------------------------------
\* page and limit as numbers, cut at a value above any table size
Beyond == MaxListIds + 1
Clamp(a) == IF IsShort(a) /\ a[1] + Byte * a[2] < Beyond THEN a[1] + Byte * a[2] ELSE Beyond
\* the notes at positions (page-1)*limit+1 .. page*limit, ascending id
ExpectedPage(tbl, page, limit) ==
    LET p == Clamp(unwrap_or(page, Usize(1)))
        l == Clamp(unwrap_or(limit, Usize(10)))
        all == OrderById(tbl)
        first == (p - 1) * l + 1
        last == IF p * l < Len(all) THEN p * l ELSE Len(all)
    IN IF first > last THEN <<>>
       ELSE [i \in 1..(last - first + 1) |-> to_note_response(all[first + i - 1])]

Positive(arg) == arg # Some(UsizeZero)

\* C5 (as claimed): for every table and every positive page and limit (1 and
\* 10 when absent) the list answers 200 with exactly the notes at positions
\* (page-1)*limit+1 .. page*limit in ascending id order, and their number.
C5_PageIsExactSlice ==
    (ev.op = "list" /\ ev.step = "respond" /\ Positive(ev.args.page) /\ Positive(ev.args.limit))
        => LET expected == ExpectedPage(notes, ev.args.page, ev.args.limit)
           IN /\ ev.resp.code = 200
              /\ ev.resp.notes = Some(expected)
              /\ ev.resp.count = Some(Len(expected))

\* the same, for page and limit whose limit and offset fit an i32 (here: below 2^15)
C5_SmallPages ==
    (/\ ev.op = "list" /\ ev.step = "respond"
     /\ Positive(ev.args.page) /\ Positive(ev.args.limit)
     /\ IsShort(unwrap_or(ev.args.page, Usize(1)))
     /\ IsShort(unwrap_or(ev.args.limit, Usize(10))))
        => LET expected == ExpectedPage(notes, ev.args.page, ev.args.limit)
           IN /\ ev.resp.code = 200
              /\ ev.resp.notes = Some(expected)
              /\ ev.resp.count = Some(Len(expected))

\* ---- C6 --------------------------------------------------------------
\* C6: get, edit and delete of an id without a row answer 404 with the
\* "no encontrado" message, status "fail" for get and "error" for edit and
\* delete, and leave the table as it was; the edit does nothing more.
C6_NotFound ==
    [][(/\ ev'.op \in {"get", "edit", "delete"}
        /\ ev'.step \in {"respond", "fetch"}
        /\ ~HasRow(notes, IdOf(ev')))
        => /\ ev'.resp = NotFound(IF ev'.op = "get" THEN "fail" ELSE "error", IdOf(ev'))
           /\ ev'.resp.code = 404
           /\ notes' = notes
           /\ req' = req
      ]_vars

\* an edit of an id without a row was answered 404
C6_Witness ==
    /\ ev.op = "edit" /\ ev.step = "fetch"
    /\ ev.resp.code = 404
    /\ ev.resp.status = "error"
    /\ notes # {}

\* ---- C7 --------------------------------------------------------------
\* C7: a create whose generated id is already stored answers 409 "Note
\* already exists" and leaves the table as it was; no two rows share an id.
C7_DuplicateId ==
    [][/\ (ev'.op = "create" /\ ev'.step = "insert" /\ HasRow(notes, IdOf(ev')))
            => /\ ev'.resp.code = 409
               /\ ev'.resp.status = "error"
               /\ ev'.resp.message = Message("Note already exists")
               /\ notes' = notes
       /\ Unique(notes) /\ Unique(notes')
      ]_vars

\* a create was answered 409 while the stored note differs from its payload
C7_Witness ==
    /\ ev.op = "create"
    /\ ev.resp.code = 409
    /\ FetchOne(notes, IdOf(ev)).title # ev.args.title

\* ---- C8 --------------------------------------------------------------
\* C8: the listener is bound only after DATABASE_URL was read and the one
\* connection attempt succeeded; without DATABASE_URL the process ends before
\* any connection attempt; a failed attempt ends it with status 1, with no
\* second attempt; in both cases nothing is ever served.
C8_Startup ==
    /\ connects <= 1
    /\ phase = "listening" => (env /\ connects = 1 /\ exit_code = None)
    /\ (~env /\ phase # "start") => (phase = "panicked" /\ connects = 0)
    /\ phase = "exited" <=> exit_code = Some(1)
    /\ exit_code \in {None, Some(1)}
    /\ phase = "exited" => connects = 1
    /\ phase # "listening" => (ev.op = "main" /\ notes = {} /\ req = EmptyBag)

\* the health-check-only entry point exited with status 1 after its attempt
C8_Witness ==
    /\ bin = "main-mysql"
    /\ phase = "exited"
    /\ exit_code = Some(1)
    /\ connects = 1

\* ---- C9 --------------------------------------------------------------
\* C9: health check, list and get leave the table as it was; a step that
\* changes the table is a create, edit or delete; the health check answers
\* 200 {status: "ok", message: "API"} whatever the table holds.
C9_ReadOnly ==
    [][/\ ev'.op \in {"health", "list", "get"} => notes' = notes
       /\ notes' # notes => ev'.op \in {"create", "edit", "delete"}
       /\ ev'.op = "health"
            => ev'.resp = Response(200, "ok", Message("API"), None, None)
      ]_vars

\* a health check was answered while a note is stored and a handler suspended
C9_Witness ==
    /\ ev.op = "health"
    /\ ev.resp.code = 200
    /\ notes # {}
    /\ req # EmptyBag

\* ---- C10 -------------------------------------------------------------
\* C10: when the row an edit fetched is gone at its UPDATE, the edit answers
\* 404 with status "error" and the "no encontrado" message, ends there, and
\* the table still has no row of that id.
C10_EditAfterDelete ==
    [][(ev'.op = "edit" /\ ev'.step = "update" /\ ~HasRow(notes, IdOf(ev')))
        => /\ ev'.resp = NotFound("error", IdOf(ev'))
           /\ ev'.resp.code = 404
           /\ ~HasRow(notes', IdOf(ev'))
           /\ notes' = notes
           /\ BagCardinality(req') = BagCardinality(req) - 1
      ]_vars

\* an edit's UPDATE found its row deleted and was answered 404
C10_Witness ==
    /\ ev.op = "edit" /\ ev.step = "update"
    /\ ev.resp.code = 404
    /\ hist[IdOf(ev)].last = "deleted"

====
